---- MODULE Spec2Model ----
(***************************************************************************)
(* Plugin lifecycle of the stripe-cli plugins package: manifest releases,  *)
(* checksum lookup, version resolution, Install and Run.                   *)
(*                                                                         *)
(* Strings that the code inspects character by character (the hex          *)
(* checksum) are sequences of one-character strings; strings that the code *)
(* only compares for equality (os, arch, version) are TLA+ strings.        *)
(***************************************************************************)
EXTENDS Integers, Sequences, FiniteSets, TLC

\* ------------------------------------------------------------------------
\* Bounds and input domains

\* longest release list of a plugin
MaxReleases == 2

\* sha256.Size: length in bytes of a SHA-256 digest
Size == 32

\* runtime.GOOS / runtime.GOARCH of the build that runs
GOOS == "linux"
GOARCH == "amd64"

OSes == {"linux", "darwin"}
Arches == {"amd64", "arm64"}

\* version strings a release entry or a call can carry; "" is the zero string
Versions == {"", "1.2.0", "1.10.0"}

\* bodies a server can send
Bodies == {<<>>, <<104>>, <<104, 105>>}

\* ------------------------------------------------------------------------
\* crypto/sha256 and encoding/hex

\* running state of the hash after absorbing B (stands in for the SHA-256
\* compression: deterministic, and different for the different Bodies)
RECURSIVE Absorb(_)
Absorb(B) ==
    IF B = <<>> THEN 99
    ELSE (Absorb(SubSeq(B, 1, Len(B) - 1)) * 31 + B[Len(B)] + 1) % 256

\* hash.Sum(nil) after io.Copy(hash, B): always Size bytes
Sha256Sum(B) == [i \in 1..Size |-> (Absorb(B) + i * (Len(B) + 3)) % 256]

HexDigits == <<"0", "1", "2", "3", "4", "5", "6", "7",
               "8", "9", "a", "b", "c", "d", "e", "f">>

\* hex.EncodeToString: two lower-case digits per byte
RECURSIVE EncodeToString(_)
EncodeToString(bytes) ==
    IF bytes = <<>> THEN <<>>
    ELSE <<HexDigits[(bytes[1] \div 16) + 1], HexDigits[(bytes[1] % 16) + 1]>>
         \o EncodeToString(Tail(bytes))

\* hex.fromHexChar: value of one digit, -1 when the character is no hex digit
FromHexChar(c) ==
    CASE c = "0" -> 0 [] c = "1" -> 1 [] c = "2" -> 2 [] c = "3" -> 3
      [] c = "4" -> 4 [] c = "5" -> 5 [] c = "6" -> 6 [] c = "7" -> 7
      [] c = "8" -> 8 [] c = "9" -> 9
      [] c \in {"a", "A"} -> 10 [] c \in {"b", "B"} -> 11
      [] c \in {"c", "C"} -> 12 [] c \in {"d", "D"} -> 13
      [] c \in {"e", "E"} -> 14 [] c \in {"f", "F"} -> 15
      [] OTHER -> -1

\* hex.DecodeString: an odd length or a non-digit is an error; otherwise one
\* byte per pair of digits, whatever the number of pairs
DecodeString(s) ==
    IF Len(s) % 2 # 0 \/ \E i \in 1..Len(s) : FromHexChar(s[i]) < 0
    THEN [err |-> TRUE, bytes |-> <<>>]
    ELSE [err |-> FALSE,
          bytes |-> [i \in 1..(Len(s) \div 2) |->
                        FromHexChar(s[2 * i - 1]) * 16 + FromHexChar(s[2 * i])]]

\* ------------------------------------------------------------------------
\* Manifest data

\* values of the sum field of a release entry: absent, digests of bodies,
\* a well-formed hex string of one byte, an odd-length one, a non-hex one
Sums == {<<>>,
         EncodeToString(Sha256Sum(<<>>)),
         EncodeToString(Sha256Sum(<<104>>)),
         <<"a", "b">>,
         <<"a", "b", "c">>,
         <<"z", "z">>}

\* type Release struct
Release == [OS : OSes, Arch : Arches, Version : Versions, Sum : Sums]

\* the release entries the process specification draws its lists from
ReleaseChoices ==
    {[OS |-> "linux", Arch |-> "amd64", Version |-> "1.2.0",
      Sum |-> EncodeToString(Sha256Sum(<<>>))],
     [OS |-> "linux", Arch |-> "amd64", Version |-> "1.2.0",
      Sum |-> EncodeToString(Sha256Sum(<<104>>))],
     [OS |-> "linux", Arch |-> "amd64", Version |-> "1.10.0",
      Sum |-> EncodeToString(Sha256Sum(<<>>))],
     [OS |-> "linux", Arch |-> "amd64", Version |-> "1.10.0",
      Sum |-> <<"a", "b">>],
     [OS |-> "linux", Arch |-> "amd64", Version |-> "1.2.0",
      Sum |-> <<"z", "z">>],
     [OS |-> "linux", Arch |-> "amd64", Version |-> "",
      Sum |-> EncodeToString(Sha256Sum(<<>>))],
     [OS |-> "darwin", Arch |-> "amd64", Version |-> "1.10.0",
      Sum |-> EncodeToString(Sha256Sum(<<>>))],
     \* a release of the development version, for runs with PLUGINS_PATH
     [OS |-> "linux", Arch |-> "amd64", Version |-> "master",
      Sum |-> EncodeToString(Sha256Sum(<<>>))]}

\* sequences over S of length at most n
SeqsUpTo(S, n) == UNION {[1..k -> S] : k \in 0..n}

\* ------------------------------------------------------------------------
\* Plugin methods that only read the release list

\* the loop of getChecksum: the sum of the last entry that matches os, arch
\* and version ("" when none does)
RECURSIVE expectedSumOf(_, _)
expectedSumOf(releases, version) ==
    IF releases = <<>> THEN <<>>
    ELSE LET release == releases[Len(releases)]
         IN IF release.OS = GOOS /\ release.Arch = GOARCH
               /\ release.Version = version
            THEN release.Sum
            ELSE expectedSumOf(SubSeq(releases, 1, Len(releases) - 1), version)

\* getChecksum: err is "nil", "locate" or "decode"
getChecksum(releases, version) ==
    LET expectedSum == expectedSumOf(releases, version)
        decoded == DecodeString(expectedSum)
    IN IF expectedSum = <<>> THEN [err |-> "locate", sum |-> <<>>]
       ELSE IF decoded.err THEN [err |-> "decode", sum |-> <<>>]
       ELSE [err |-> "nil", sum |-> decoded.bytes]

\* LookUpLatestVersion as it would be with a break in the loop: the version
\* of the first entry that matches os and arch
RECURSIVE LookUpFirstVersion(_)
LookUpFirstVersion(releases) ==
    IF releases = <<>> THEN ""
    ELSE LET pkg == releases[1]
         IN IF pkg.OS = GOOS /\ pkg.Arch = GOARCH
            THEN pkg.Version
            ELSE LookUpFirstVersion(Tail(releases))

\* LookUpLatestVersion: the version of the last entry that matches os and arch
RECURSIVE LookUpLatestVersion(_)
LookUpLatestVersion(releases) ==
    IF releases = <<>> THEN ""
    ELSE LET pkg == releases[Len(releases)]
         IN IF pkg.OS = GOOS /\ pkg.Arch = GOARCH
            THEN pkg.Version
            ELSE LookUpLatestVersion(SubSeq(releases, 1, Len(releases) - 1))

\* ------------------------------------------------------------------------
\* Install layout on disk

\* names that can stand under <pluginsDir>/<shortname>; "" is that directory
\* itself (filepath.Join drops an empty element)
DirNames == Versions \cup {"master"}

NoFile == [exists |-> FALSE, content |-> <<>>, mode |-> "none"]

\* the binary file <pluginsDir>/<shortname>/<name>/<binary>
BinaryFile(content, mode) == [exists |-> TRUE, content |-> content, mode |-> mode]

EmptyFs == [dirs |-> {""}, files |-> [n \in DirNames |-> NoFile]]

\* a version directory holding an executable binary
Installed(f, name, content) ==
    [dirs |-> f.dirs \cup {name},
     files |-> [f.files EXCEPT ![name] = BinaryFile(content, "0755")]]

\* install trees an invocation can find on disk when it starts
FsChoices ==
    {EmptyFs,
     [EmptyFs EXCEPT !.dirs = {"", "1.2.0"}],
     Installed(EmptyFs, "1.2.0", <<>>),
     Installed(EmptyFs, "1.2.0", <<104>>),
     Installed(Installed(EmptyFs, "1.2.0", <<>>), "1.10.0", <<104>>),
     Installed(EmptyFs, "master", <<>>)}

\* character codes of a directory name, for the lexical order of Glob
NameChars(n) ==
    CASE n = "1.2.0" -> <<49, 46, 50, 46, 48>>
      [] n = "1.10.0" -> <<49, 46, 49, 48, 46, 48>>
      [] n = "master" -> <<109, 97, 115, 116, 101, 114>>
      [] OTHER -> <<>>

\* sort.Strings order on two names
RECURSIVE LexLess(_, _)
LexLess(a, b) ==
    IF b = <<>> THEN FALSE
    ELSE IF a = <<>> THEN TRUE
    ELSE IF a[1] # b[1] THEN a[1] < b[1]
    ELSE LexLess(Tail(a), Tail(b))

\* number of '.' characters (code 46) in a name
RECURSIVE Dots(_)
Dots(cs) == IF cs = <<>> THEN 0
            ELSE (IF cs[1] = 46 THEN 1 ELSE 0) + Dots(Tail(cs))

\* a Glob whose pattern has four parts, *.*.*.*
GlobMatchesFourParts(f) == {n \in f.dirs : Dots(NameChars(n)) >= 3}

\* filepath.Glob(<pluginsDir>/<shortname>/*.*.*): the entries of the plugin's
\* directory whose name has the shape *.*.*
GlobMatches(f) == {n \in f.dirs : Dots(NameChars(n)) >= 2}

\* existingLocalPlugin[0]: Glob returns the names in lexical order
GlobFirst(f) ==
    CHOOSE n \in GlobMatches(f) :
        \A m \in GlobMatches(f) : m = n \/ LexLess(NameChars(n), NameChars(m))

\* ------------------------------------------------------------------------
\* HTTP download

\* what a server can answer: a status, a body, and whether the body arrives
\* as http.NoBody (Content-Length: 0) or wrapped in a body reader
Responses ==
    {[status |-> st, body |-> b, noBody |-> nb] :
        st \in {200, 404}, b \in Bodies, nb \in BOOLEAN} \
    {r \in [status : {200, 404}, body : Bodies, noBody : BOOLEAN] :
        r.noBody /\ r.body # <<>>}

NoResponse == [status |-> 0, body |-> <<>>, noBody |-> FALSE]

NoStream == [data |-> <<>>, closed |-> FALSE, noBody |-> FALSE, open |-> FALSE]

\* FetchRemoteResource on a response: returns resp.Body after the deferred
\* resp.Body.Close() has run; the status is not looked at
FetchRemoteResource(r) ==
    [data |-> r.body, closed |-> TRUE, noBody |-> r.noBody, open |-> TRUE]

\* io.Copy(dst, stream): reads the stream to EOF. A closed body reader fails
\* the read; http.NoBody reports EOF whether closed or not.
ReadToEOF(st) ==
    IF st.closed /\ ~st.noBody THEN [err |-> TRUE, bytes |-> <<>>]
    ELSE [err |-> FALSE, bytes |-> st.data]

\* the stream after it has been read to EOF
Drained(st) == [st EXCEPT !.data = <<>>]

\* verifyChecksum as it would be without the comparison of the two sums
verifyChecksumUncompared(releases, st, version) ==
    LET expected == getChecksum(releases, version)
        read == ReadToEOF(st)
    IN IF expected.err # "nil" THEN expected.err
       ELSE IF read.err THEN "read"
       ELSE "nil"

\* verifyChecksum: "nil", or the error it returns
verifyChecksum(releases, st, version) ==
    LET expected == getChecksum(releases, version)
        read == ReadToEOF(st)
    IN IF expected.err # "nil" THEN expected.err
       ELSE IF read.err THEN "read"
       ELSE IF Sha256Sum(read.bytes) # expected.sum THEN "mismatch"
       ELSE "nil"

\* ------------------------------------------------------------------------
\* One CLI invocation

VARIABLES
    plugin,         \* the Plugin value the method is called on
    pluginsPathEnv, \* os.Getenv("PLUGINS_PATH")
    entry,          \* the function the invocation enters
    pc,             \* position in Install / Run
    version,        \* the version argument of Install / local of Run
    fs,             \* the install tree on disk
    fs0,            \* the install tree when the invocation started
    resp,           \* the response the download received
    stream,         \* the io.Reader FetchRemoteResource returned
    calls,          \* external requests issued so far
    result,         \* the error value returned ("nil": no error)
    exited,         \* the CLI process was ended by log.Fatal
    child,          \* the plugin child process
    pinned,         \* clientConfig.SecureConfig.Checksum
    ctxCancelled,   \* the context was cancelled by the signal handler
    interruptPc,    \* where the invocation was when the signal arrived
    rpcs,           \* RunCommand calls issued
    ret,            \* value returned by a directly called method
    launched,       \* the binary path the transport was given to start
    installs,       \* calls of Install
    installErr,     \* what Install returned ("none": not called)
    rpcErr,         \* the error the plugin's RunCommand returned
    cache,          \* the manifest cache file <config-root>/plugins.toml
    cache0,         \* the manifest cache file when the invocation started
    refreshes,      \* calls of RefreshPluginManifest
    pluginName,     \* the name LookUpPlugin is asked for
    other           \* the suspended one of two concurrent invocations

vars == <<plugin, pluginsPathEnv, entry, pc, version, fs, fs0, resp, stream,
          calls, result, exited, child, pinned, ctxCancelled, interruptPc,
          rpcs, ret, launched, installs, installErr, rpcErr, cache, cache0,
          refreshes, pluginName, other>>

NoRet == [op |-> "none"]

\* no second invocation
NoOther == [pc |-> "none"]

\* no binary path yet
NoPath == [root |-> "", name |-> ""]

\* the manifest cache file when it does not exist
NoCache == [exists |-> FALSE, text |-> <<>>]

\* the state of an invocation that has not run anything yet
Fresh ==
    /\ resp = NoResponse
    /\ stream = NoStream
    /\ calls = {}
    /\ result = "running"
    /\ exited = FALSE
    /\ child = "none"
    /\ pinned = <<>>
    /\ ctxCancelled = FALSE
    /\ interruptPc = "none"
    /\ rpcs = 0
    /\ ret = NoRet
    /\ launched = NoPath
    /\ installs = 0
    /\ installErr = "none"
    /\ rpcErr = "none"
    /\ refreshes = 0

Init ==
    /\ plugin \in [Release : SeqsUpTo(ReleaseChoices, MaxReleases)]
    /\ entry \in {"Install", "runInstallCmd", "Run"}
    \* only Run reads PLUGINS_PATH
    /\ pluginsPathEnv \in (IF entry = "Run" THEN {"", "/dev/plugins"} ELSE {""})
    /\ IF entry = "Install"
       THEN version \in Versions /\ pc = "i_apikey"
       ELSE version = "" /\ pc = "start"
    /\ fs \in FsChoices
    /\ fs0 = fs
    /\ cache = NoCache
    /\ cache0 = cache
    /\ pluginName = ""
    /\ other = NoOther
    /\ Fresh

\* a caller that drops the error of Install: Run goes on to the launch
InstallFailIgnored(e) ==
    /\ installErr' = e
    /\ IF entry = "Run" THEN pc' = "r_config" /\ result' = result
       ELSE pc' = "done" /\ result' = e

\* a return of Install with error e: runInstallCmd and Run both return it
InstallFail(e) ==
    /\ result' = e
    /\ installErr' = e
    /\ pc' = "done"

\* runInstallCmd: resolve the latest version and call Install with it
runInstallCmd ==
    /\ pc = "start" /\ entry = "runInstallCmd"
    /\ version' = LookUpLatestVersion(plugin.Release)
    /\ pc' = "i_apikey"
    /\ UNCHANGED <<plugin, pluginsPathEnv, entry, fs, fs0, resp, stream,
                   calls, result, exited, child, pinned, ctxCancelled,
                   interruptPc, rpcs, ret, launched, installs, installErr,
                   rpcErr, cache, cache0, refreshes, pluginName, other>>

\* Install: config.Profile.GetAPIKey(false)
InstallGetAPIKey ==
    /\ pc = "i_apikey"
    /\ installs' = installs + 1
    /\ calls' = calls \cup {"GetAPIKey"}
    /\ \E ok \in BOOLEAN :
          IF ok
          THEN pc' = "i_plugindata" /\ result' = result
               /\ installErr' = "running"
          ELSE InstallFail("apikey")
    /\ UNCHANGED <<plugin, pluginsPathEnv, entry, version, fs, fs0, resp,
                   stream, exited, child, pinned, ctxCancelled, interruptPc,
                   rpcs, ret, launched, rpcErr, cache, cache0, refreshes,
                   pluginName, other>>

\* Install: requests.GetPluginData(ctx, ...), a request that a cancelled
\* context fails
InstallGetPluginData ==
    /\ pc = "i_plugindata"
    /\ calls' = calls \cup {"GetPluginData"}
    /\ \E ok \in BOOLEAN :
          IF ok /\ ~ctxCancelled
          THEN pc' = "i_fetch" /\ UNCHANGED <<result, installErr>>
          ELSE InstallFail("plugindata")
    /\ UNCHANGED <<plugin, pluginsPathEnv, entry, version, fs, fs0, resp,
                   stream, exited, child, pinned, ctxCancelled, interruptPc,
                   rpcs, ret, launched, installs, rpcErr, cache, cache0,
                   refreshes, pluginName, other>>

\* Install: binary, err := FetchRemoteResource(pluginDownloadURL)
InstallFetch ==
    /\ pc = "i_fetch"
    /\ calls' = calls \cup {"Download"}
    /\ \/ /\ InstallFail("fetch")
          /\ UNCHANGED <<resp, stream>>
       \/ \E r \in Responses :
             /\ resp' = r
             /\ stream' = FetchRemoteResource(r)
             /\ pc' = "i_verify"
             /\ UNCHANGED <<result, installErr>>
    /\ UNCHANGED <<plugin, pluginsPathEnv, entry, version, fs, fs0, exited,
                   child, pinned, ctxCancelled, interruptPc, rpcs, ret,
                   launched, installs, rpcErr, cache, cache0, refreshes,
                   pluginName, other>>

\* Install: err = p.verifyChecksum(binary, version)
InstallVerify ==
    /\ pc = "i_verify"
    /\ LET err == verifyChecksum(plugin.Release, stream, version)
       IN IF err = "nil"
          THEN /\ stream' = Drained(stream)
               /\ pc' = "i_mkdir"
               /\ UNCHANGED <<result, installErr>>
          ELSE /\ stream' = IF err \in {"locate", "decode"} THEN stream
                            ELSE Drained(stream)
               /\ InstallFail(err)
    /\ UNCHANGED <<plugin, pluginsPathEnv, entry, version, fs, fs0, resp,
                   calls, exited, child, pinned, ctxCancelled, interruptPc,
                   rpcs, ret, launched, installs, rpcErr, cache, cache0,
                   refreshes, pluginName, other>>

\* Install: fs.MkdirAll(pluginDir, 0755)
InstallMkdirAll ==
    /\ pc = "i_mkdir"
    /\ \E ok \in BOOLEAN :
          IF ok
          THEN /\ fs' = [fs EXCEPT !.dirs = @ \cup {version}]
               /\ pc' = "i_create"
               /\ UNCHANGED <<result, installErr>>
          ELSE /\ fs' = fs
               /\ InstallFail("mkdir")
    /\ UNCHANGED <<plugin, pluginsPathEnv, entry, version, fs0, resp, stream,
                   calls, exited, child, pinned, ctxCancelled, interruptPc,
                   rpcs, ret, launched, installs, rpcErr, cache, cache0,
                   refreshes, pluginName, other>>

\* a Create that opens the file that is there without truncating it
InstallCreateNoTruncate ==
    /\ pc = "i_create"
    /\ \E ok \in BOOLEAN :
          IF ok /\ version \in fs.dirs
          THEN /\ fs' = [fs EXCEPT !.files[version] =
                           IF @.exists THEN @ ELSE BinaryFile(<<>>, "0644")]
               /\ pc' = "i_chmod"
               /\ UNCHANGED <<result, installErr>>
          ELSE /\ fs' = fs
               /\ InstallFail("create")
    /\ UNCHANGED <<plugin, pluginsPathEnv, entry, version, fs0, resp, stream,
                   calls, exited, child, pinned, ctxCancelled, interruptPc,
                   rpcs, ret, launched, installs, rpcErr, cache, cache0,
                   refreshes, pluginName, other>>

\* Install: fs.Create(pluginFilePath): creates the file with the default
\* mode, or truncates the file that is there
InstallCreate ==
    /\ pc = "i_create"
    /\ \E ok \in BOOLEAN :
          IF ok /\ version \in fs.dirs
          THEN /\ fs' = [fs EXCEPT !.files[version] =
                           BinaryFile(<<>>, IF @.exists THEN @.mode ELSE "0644")]
               /\ pc' = "i_chmod"
               /\ UNCHANGED <<result, installErr>>
          ELSE /\ fs' = fs
               /\ InstallFail("create")
    /\ UNCHANGED <<plugin, pluginsPathEnv, entry, version, fs0, resp, stream,
                   calls, exited, child, pinned, ctxCancelled, interruptPc,
                   rpcs, ret, launched, installs, rpcErr, cache, cache0,
                   refreshes, pluginName, other>>

\* Install: fs.Chmod(pluginFilePath, 0755)
InstallChmod ==
    /\ pc = "i_chmod"
    /\ \E ok \in BOOLEAN :
          IF ok /\ fs.files[version].exists
          THEN /\ fs' = [fs EXCEPT !.files[version].mode = "0755"]
               /\ pc' = "i_copy"
               /\ UNCHANGED <<result, installErr>>
          ELSE /\ fs' = fs
               /\ InstallFail("chmod")
    /\ UNCHANGED <<plugin, pluginsPathEnv, entry, version, fs0, resp, stream,
                   calls, exited, child, pinned, ctxCancelled, interruptPc,
                   rpcs, ret, launched, installs, rpcErr, cache, cache0,
                   refreshes, pluginName, other>>

\* the content of a file after bytes were written through a descriptor
\* that fs.Create returned, whose offset starts at 0
WriteAtStart(content, bytes) ==
    IF Len(bytes) >= Len(content) THEN bytes
    ELSE bytes \o SubSeq(content, Len(bytes) + 1, Len(content))

\* Install: io.Copy(file, binary), then return nil; under Run the caller
\* goes on to launch
InstallCopy ==
    /\ pc = "i_copy"
    /\ LET read == ReadToEOF(stream)
       IN IF read.err
          THEN /\ fs' = fs
               /\ stream' = stream
               /\ InstallFail("read")
          ELSE /\ stream' = Drained(stream)
               /\ \/ /\ fs' = [fs EXCEPT !.files[version].content =
                                  WriteAtStart(@, read.bytes)]
                     /\ IF entry = "Run"
                        THEN pc' = "r_config" /\ result' = result
                        ELSE pc' = "done" /\ result' = "nil"
                     /\ installErr' = "nil"
                  \/ \E n \in 0..(Len(read.bytes) - 1) :
                        /\ fs' = [fs EXCEPT !.files[version].content =
                                     WriteAtStart(@, SubSeq(read.bytes, 1, n))]
                        /\ InstallFail("write")
    /\ UNCHANGED <<plugin, pluginsPathEnv, entry, version, fs0, resp, calls,
                   exited, child, pinned, ctxCancelled, interruptPc, rpcs,
                   ret, launched, installs, rpcErr, cache, cache0, refreshes,
                   pluginName, other>>

\* const PluginsPath
PluginsPath == ""

\* <config folder>/plugins
ConfigPluginsDir == "config/plugins"

\* getPluginsDir: the constant PluginsPath when it is set, else the plugins
\* directory of the configuration folder
getPluginsDir ==
    IF PluginsPath # "" THEN PluginsPath ELSE ConfigPluginsDir

\* Run: choose the version: the development marker when PLUGINS_PATH is
\* set, else the first installed version the glob finds, else the latest
\* release, which is installed first
RunResolve ==
    /\ pc = "start" /\ entry = "Run"
    /\ IF pluginsPathEnv # ""
       THEN version' = "master" /\ pc' = "r_config"
       ELSE IF GlobMatches(fs) = {}
       THEN version' = LookUpLatestVersion(plugin.Release) /\ pc' = "i_apikey"
       ELSE version' = GlobFirst(fs) /\ pc' = "r_config"
    /\ UNCHANGED <<plugin, pluginsPathEnv, entry, fs, fs0, resp, stream,
                   calls, result, exited, child, pinned, ctxCancelled,
                   interruptPc, rpcs, ret, launched, installs, installErr,
                   rpcErr, cache, cache0, refreshes, pluginName, other>>

\* a Run that drops the error of getChecksum and launches all the same
RunGetChecksumUnchecked ==
    /\ pc = "r_config"
    /\ LET sum == getChecksum(plugin.Release, version)
       IN result' = result /\ pc' = "r_client" /\ pinned' = sum.sum
    /\ UNCHANGED <<plugin, pluginsPathEnv, entry, version, fs, fs0, resp,
                   stream, calls, exited, child, ctxCancelled, interruptPc,
                   rpcs, ret, launched, installs, installErr, rpcErr, cache,
                   cache0, refreshes, pluginName, other>>

\* Run: sum, err := p.getChecksum(version); the sum becomes the pinned
\* SecureConfig checksum
RunGetChecksum ==
    /\ pc = "r_config"
    /\ LET sum == getChecksum(plugin.Release, version)
       IN IF sum.err # "nil"
          THEN result' = sum.err /\ pc' = "done" /\ pinned' = pinned
          ELSE result' = result /\ pc' = "r_client" /\ pinned' = sum.sum
    /\ UNCHANGED <<plugin, pluginsPathEnv, entry, version, fs, fs0, resp,
                   stream, calls, exited, child, ctxCancelled, interruptPc,
                   rpcs, ret, launched, installs, installErr, rpcErr, cache,
                   cache0, refreshes, pluginName, other>>

\* log.Fatal(err): the process exits at once; deferred calls do not run
LogFatal ==
    /\ exited' = TRUE
    /\ result' = "fatal"
    /\ pc' = "done"

\* Run: client.Client(), first half: the transport checks the binary
\* against the pinned checksum and starts it
RunStart ==
    /\ pc = "r_client"
    /\ launched' = [root |-> getPluginsDir, name |-> version]
    /\ LET file == fs.files[version]
       IN IF file.exists /\ file.mode = "0755"
             /\ Sha256Sum(file.content) = pinned
          THEN child' = "running" /\ pc' = "r_handshake"
               /\ UNCHANGED <<exited, result>>
          ELSE child' = child /\ LogFatal
    /\ UNCHANGED <<plugin, pluginsPathEnv, entry, version, fs, fs0, resp,
                   stream, calls, pinned, ctxCancelled, interruptPc, rpcs,
                   ret, installs, installErr, rpcErr, cache, cache0,
                   refreshes, pluginName, other>>

\* Run: client.Client(), second half: the handshake with the started child
\* and the creation of the protocol client. A failed handshake makes the
\* transport kill the child it started; a failed client creation does not.
RunHandshake ==
    /\ pc = "r_handshake"
    /\ \E outcome \in {"ok", "handshake", "client"} :
          CASE outcome = "ok" ->
                 child' = child /\ pc' = "r_dispense"
                 /\ UNCHANGED <<exited, result>>
            [] outcome = "handshake" -> child' = "killed" /\ LogFatal
            [] outcome = "client" -> child' = child /\ LogFatal
    /\ UNCHANGED <<plugin, pluginsPathEnv, entry, version, fs, fs0, resp,
                   stream, calls, pinned, ctxCancelled, interruptPc, rpcs,
                   ret, launched, installs, installErr, rpcErr, cache, cache0,
                   refreshes, pluginName, other>>

\* Run: rpcClient.Dispense("main"), after defer client.Kill()
RunDispense ==
    /\ pc = "r_dispense"
    /\ \E ok \in BOOLEAN :
          IF ok THEN pc' = "r_dispatch" /\ UNCHANGED <<result, child>>
          ELSE result' = "dispense" /\ child' = "killed" /\ pc' = "done"
    /\ UNCHANGED <<plugin, pluginsPathEnv, entry, version, fs, fs0, resp,
                   stream, calls, exited, pinned, ctxCancelled, interruptPc,
                   rpcs, ret, launched, installs, installErr, rpcErr, cache,
                   cache0, refreshes, pluginName, other>>

\* a Run that wraps the error of RunCommand
runCommandResultWrapped(err) == IF err # "nil" THEN "wrapped" ELSE "nil"

\* what Run returns after RunCommand returned err
runCommandResult(err) == IF err # "nil" THEN err ELSE "nil"

\* a Run that issues RunCommand a second time when the first one failed
RunCommandRetrying ==
    /\ pc = "r_dispatch"
    /\ rpcs' = rpcs + 1
    /\ \E err \in {"nil", "upstream"} :
          /\ rpcErr' = err
          /\ result' = runCommandResult(err)
          /\ IF err # "nil" /\ rpcs = 0
             THEN pc' = pc /\ child' = child
             ELSE pc' = "done" /\ child' = "killed"
    /\ UNCHANGED <<plugin, pluginsPathEnv, entry, version, fs, fs0, resp,
                   stream, calls, exited, pinned, ctxCancelled, interruptPc,
                   ret, launched, installs, installErr, cache, cache0,
                   refreshes, pluginName, other>>

\* Run: dispatcher.RunCommand(args), return of its error, deferred Kill
RunCommand ==
    /\ pc = "r_dispatch"
    /\ rpcs' = rpcs + 1
    /\ \E err \in {"nil", "upstream"} :
          /\ rpcErr' = err
          /\ result' = runCommandResult(err)
    /\ child' = "killed"
    /\ pc' = "done"
    /\ UNCHANGED <<plugin, pluginsPathEnv, entry, version, fs, fs0, resp,
                   stream, calls, exited, pinned, ctxCancelled, interruptPc,
                   ret, launched, installs, installErr, cache, cache0,
                   refreshes, pluginName, other>>

\* an interrupt signal: the handler installed by withSIGTERMCancel cancels
\* the context of the invocation
Interrupt ==
    /\ pc # "done"
    /\ ~ctxCancelled
    /\ ctxCancelled' = TRUE
    /\ interruptPc' = pc
    /\ UNCHANGED <<plugin, pluginsPathEnv, entry, pc, version, fs, fs0, resp,
                   stream, calls, result, exited, child, pinned, rpcs, ret,
                   launched, installs, installErr, rpcErr, cache, cache0,
                   refreshes, pluginName, other>>

Next ==
    \/ runInstallCmd
    \/ InstallGetAPIKey
    \/ InstallGetPluginData
    \/ InstallFetch
    \/ InstallVerify
    \/ InstallMkdirAll
    \/ InstallCreate
    \/ InstallChmod
    \/ InstallCopy
    \/ RunResolve
    \/ RunGetChecksum
    \/ RunStart
    \/ RunHandshake
    \/ RunDispense
    \/ RunCommand
    \/ Interrupt

Spec == Init /\ [][Next]_vars

\* ------------------------------------------------------------------------
\* The methods that only read the release list, called directly on every
\* release list up to MaxReleases entries

InitMethods ==
    /\ plugin \in [Release : SeqsUpTo(Release, MaxReleases)]
    /\ pluginsPathEnv = ""
    /\ entry = "method"
    /\ version \in Versions
    /\ pc = "call"
    /\ fs = EmptyFs
    /\ fs0 = fs
    /\ cache = NoCache
    /\ cache0 = cache
    /\ pluginName = ""
    /\ other = NoOther
    /\ Fresh

\* p.getChecksum(version)
CallGetChecksum ==
    /\ pc = "call" /\ entry = "method"
    /\ ret' = [op |-> "getChecksum"] @@ getChecksum(plugin.Release, version)
    /\ pc' = "returned"
    /\ UNCHANGED <<plugin, pluginsPathEnv, entry, version, fs, fs0, resp,
                   stream, calls, result, exited, child, pinned, ctxCancelled,
                   interruptPc, rpcs, launched, installs, installErr, rpcErr,
                   cache, cache0, refreshes, pluginName, other>>

\* p.LookUpLatestVersion()
CallLookUpLatestVersion ==
    /\ pc = "call" /\ entry = "method"
    /\ ret' = [op |-> "LookUpLatestVersion",
               version |-> LookUpLatestVersion(plugin.Release)]
    /\ pc' = "returned"
    /\ UNCHANGED <<plugin, pluginsPathEnv, entry, version, fs, fs0, resp,
                   stream, calls, result, exited, child, pinned, ctxCancelled,
                   interruptPc, rpcs, launched, installs, installErr, rpcErr,
                   cache, cache0, refreshes, pluginName, other>>

NextMethods ==
    \/ CallGetChecksum
    \/ CallLookUpLatestVersion

SpecMethods == InitMethods /\ [][NextMethods]_vars

\* ------------------------------------------------------------------------
\* The manifest cache: GetPluginList and RefreshPluginManifest

\* longest manifest text, in lines
MaxManifestLines == 2

\* a line of a manifest text: the entry of the plugin with that shortname,
\* or "=", a line that is no TOML
ManifestLines == {"foo", "Bar", "="}

ManifestTexts == SeqsUpTo(ManifestLines, MaxManifestLines)

\* the manifest cache file holding text
CacheFile(text) == [exists |-> TRUE, text |-> text]

\* a decoder that skips the lines that are no TOML
DecodeLenient(text) ==
    LET good == SelectSeq(text, LAMBDA l : l # "=")
    IN [err |-> FALSE,
        list |-> [i \in DOMAIN good |-> [Shortname |-> good[i]]]]

\* toml.Decode(string(file), &pluginList): a line that is no TOML is an
\* error; otherwise one Plugin per entry, in the order of the text
Decode(text) ==
    IF \E i \in DOMAIN text : text[i] = "="
    THEN [err |-> TRUE, list |-> <<>>]
    ELSE [err |-> FALSE,
          list |-> [i \in DOMAIN text |-> [Shortname |-> text[i]]]]

\* GetPluginList: read the cache file and decode it; err is "nil",
\* "notexist" or "decode"
GetPluginList(file) ==
    IF ~file.exists THEN [err |-> "notexist", list |-> <<>>]
    ELSE LET decoded == Decode(file.text)
         IN IF decoded.err THEN [err |-> "decode", list |-> <<>>]
            ELSE [err |-> "nil", list |-> decoded.list]

\* strings.ToLower on the names of the model
ToLower(s) == CASE s = "Bar" -> "bar" [] OTHER -> s

\* the names LookUpPlugin is asked for
RequestedNames == {"foo", "bar", "Bar", "baz"}

\* var plugin Plugin, the zero value
NoPlugin == [Shortname |-> ""]

\* LookUpPlugin: the first plugin of the list whose lower-cased shortname
\* is pluginName; err is "nil", the error of GetPluginList, or "notfound"
LookUpPlugin(file, name) ==
    LET pluginList == GetPluginList(file)
        hits == {i \in DOMAIN pluginList.list :
                    name = ToLower(pluginList.list[i].Shortname)}
    IN IF pluginList.err # "nil"
       THEN [err |-> pluginList.err, plugin |-> NoPlugin]
       ELSE IF hits # {}
       THEN [err |-> "nil",
             plugin |-> pluginList.list[CHOOSE i \in hits :
                                           \A j \in hits : i <= j]]
       ELSE [err |-> "notfound", plugin |-> NoPlugin]

\* what the manifest endpoint can answer
ManifestResponses ==
    {r \in [status : {200, 404}, body : ManifestTexts, noBody : BOOLEAN] :
        r.noBody => r.body = <<>>}

InitManifest ==
    /\ plugin = [Release |-> <<>>]
    /\ pluginsPathEnv = ""
    /\ entry \in {"GetPluginList", "LookUpPlugin", "RefreshPluginManifest"}
    /\ version = ""
    /\ pc = "call"
    /\ fs = EmptyFs
    /\ fs0 = fs
    /\ cache \in {NoCache} \cup {CacheFile(t) : t \in ManifestTexts}
    /\ cache0 = cache
    /\ pluginName \in (IF entry = "LookUpPlugin" THEN RequestedNames
                       ELSE {""})
    /\ other = NoOther
    /\ Fresh

\* GetPluginList(config)
CallGetPluginList ==
    /\ pc = "call" /\ entry = "GetPluginList"
    /\ ret' = [op |-> "GetPluginList"] @@ GetPluginList(cache)
    /\ pc' = "returned"
    /\ UNCHANGED <<plugin, pluginsPathEnv, entry, version, fs, fs0, resp,
                   stream, calls, result, exited, child, pinned, ctxCancelled,
                   interruptPc, rpcs, launched, installs, installErr, rpcErr,
                   cache, cache0, refreshes, pluginName, other>>

\* LookUpPlugin(config, pluginName)
CallLookUpPlugin ==
    /\ pc = "call" /\ entry = "LookUpPlugin"
    /\ ret' = [op |-> "LookUpPlugin"] @@ LookUpPlugin(cache, pluginName)
    /\ pc' = "returned"
    /\ UNCHANGED <<plugin, pluginsPathEnv, entry, version, fs, fs0, resp,
                   stream, calls, result, exited, child, pinned, ctxCancelled,
                   interruptPc, rpcs, launched, installs, installErr, rpcErr,
                   cache, cache0, refreshes, pluginName, other>>

\* RefreshPluginManifest: body, err := FetchRemoteResource(url)
RefreshFetch ==
    /\ pc = "call" /\ entry = "RefreshPluginManifest"
    /\ refreshes' = refreshes + 1
    /\ calls' = calls \cup {"Manifest"}
    /\ \/ /\ result' = "fetch"
          /\ pc' = "done"
          /\ UNCHANGED <<resp, stream>>
       \/ \E r \in ManifestResponses :
             /\ resp' = r
             /\ stream' = FetchRemoteResource(r)
             /\ pc' = "m_create"
             /\ result' = result
    /\ UNCHANGED <<plugin, pluginsPathEnv, entry, version, fs, fs0, exited,
                   child, pinned, ctxCancelled, interruptPc, rpcs, ret,
                   launched, installs, installErr, rpcErr, cache, cache0,
                   pluginName, other>>

\* RefreshPluginManifest: file, err := fs.Create(pluginManifestPath), which
\* creates the file or truncates the one that is there
RefreshCreate ==
    /\ pc = "m_create"
    /\ \E ok \in BOOLEAN :
          IF ok
          THEN cache' = CacheFile(<<>>) /\ pc' = "m_copy" /\ result' = result
          ELSE cache' = cache /\ pc' = "done" /\ result' = "create"
    /\ UNCHANGED <<plugin, pluginsPathEnv, entry, version, fs, fs0, resp,
                   stream, calls, exited, child, pinned, ctxCancelled,
                   interruptPc, rpcs, ret, launched, installs, installErr,
                   rpcErr, cache0, refreshes, pluginName, other>>

\* RefreshPluginManifest: io.Copy(file, body) and return
RefreshCopy ==
    /\ pc = "m_copy"
    /\ pc' = "done"
    /\ LET read == ReadToEOF(stream)
       IN IF read.err
          THEN cache' = cache /\ stream' = stream /\ result' = "read"
          ELSE /\ stream' = Drained(stream)
               /\ \/ /\ cache' = CacheFile(cache.text \o read.bytes)
                     /\ result' = "nil"
                  \/ \E n \in 0..(Len(read.bytes) - 1) :
                        /\ cache' = CacheFile(cache.text
                                                \o SubSeq(read.bytes, 1, n))
                        /\ result' = "write"
    /\ UNCHANGED <<plugin, pluginsPathEnv, entry, version, fs, fs0, resp,
                   calls, exited, child, pinned, ctxCancelled, interruptPc,
                   rpcs, ret, launched, installs, installErr, rpcErr, cache0,
                   refreshes, pluginName, other>>

NextManifest ==
    \/ CallGetPluginList
    \/ CallLookUpPlugin
    \/ RefreshFetch
    \/ RefreshCreate
    \/ RefreshCopy

SpecManifest == InitManifest /\ [][NextManifest]_vars

\* ------------------------------------------------------------------------
\* Two invocations that install the same plugin and version concurrently

\* what an invocation keeps to itself: its position, its download and what
\* it returns; the install tree is shared
Locals ==
    [pc |-> pc, resp |-> resp, stream |-> stream, result |-> result,
     installErr |-> installErr, calls |-> calls, installs |-> installs]

\* the install trees two concurrent installers can find on disk
ConcurrentFsChoices ==
    {EmptyFs, Installed(EmptyFs, "1.2.0", <<104>>)}

InitConcurrent ==
    /\ plugin \in {[Release |-> <<r>>] : r \in ReleaseChoices}
    /\ pluginsPathEnv = ""
    /\ entry = "Install"
    /\ version \in Versions
    /\ pc = "i_apikey"
    /\ fs \in ConcurrentFsChoices
    /\ fs0 = fs
    /\ cache = NoCache
    /\ cache0 = cache
    /\ pluginName = ""
    /\ Fresh
    /\ other = Locals

\* the operating system suspends the running invocation and resumes the
\* other one, which has steps left
Yield ==
    /\ other # NoOther
    /\ other.pc # "done"
    /\ other' = Locals
    /\ pc' = other.pc
    /\ resp' = other.resp
    /\ stream' = other.stream
    /\ result' = other.result
    /\ installErr' = other.installErr
    /\ calls' = other.calls
    /\ installs' = other.installs
    /\ UNCHANGED <<plugin, pluginsPathEnv, entry, version, fs, fs0, exited,
                   child, pinned, ctxCancelled, interruptPc, rpcs, ret,
                   launched, rpcErr, cache, cache0, refreshes, pluginName>>

NextConcurrent ==
    \/ InstallGetAPIKey
    \/ InstallGetPluginData
    \/ InstallFetch
    \/ InstallVerify
    \/ InstallMkdirAll
    \/ InstallCreate
    \/ InstallChmod
    \/ InstallCopy
    \/ Yield

SpecConcurrent == InitConcurrent /\ [][NextConcurrent]_vars

\* ------------------------------------------------------------------------
\* Properties

\* the positions of Run at which the child process has been started
SpawnedPcs == {"r_handshake", "r_dispense", "r_dispatch"}

\* the errors of the filesystem calls of Install
FsErrors == {"mkdir", "create", "chmod", "write"}

\* the invocation has downloaded a body and the manifest holds a decodable
\* checksum for the version being installed
Downloaded ==
    /\ resp # NoResponse
    /\ getChecksum(plugin.Release, version).err = "nil"

\* the digest the manifest expects for the version being installed
ExpectedDigest == getChecksum(plugin.Release, version).sum

\* C1: when the SHA-256 of the downloaded bytes differs from the expected
\* digest, Install never reaches a filesystem call, the install tree is as
\* it was when the invocation started, and the invocation ends with an error.
MismatchWritesNothing ==
    \/ /\ fs = fs0
       /\ pc \in {"i_verify", "done"}
       /\ (pc = "done" => result \notin {"nil", "running"})
    \/ ~(Downloaded /\ Sha256Sum(resp.body) # ExpectedDigest)

\* C1 witness: an Install whose comparison of the two sums failed
MismatchWitness ==
    /\ Downloaded
    /\ Sha256Sum(resp.body) # ExpectedDigest
    /\ pc = "done"
    /\ result = "mismatch"

\* C2: when the manifest checksum is the SHA-256 of the body the download
\* returned (and no filesystem call failed), Install succeeds and the
\* installed file holds exactly that body.
RoundTrip ==
    (/\ entry = "Install" /\ pc = "done"
     /\ Downloaded /\ resp.status = 200
     /\ Sha256Sum(resp.body) = ExpectedDigest
     /\ result \notin FsErrors) =>
        /\ result = "nil"
        /\ fs.files[version].exists
        /\ fs.files[version].content = resp.body

\* C3: whenever Run has ended after the child process was started, the child
\* process has been killed.
ChildKilledWhenRunEnds ==
    (pc = "done" /\ child # "none") => child = "killed"

\* C4: a failure of the handshake or of the client creation is returned by
\* Run; the invocation never ends by the process being terminated.
HandshakeFailureReturned ==
    pc = "done" => ~exited

\* C5: an interrupt that arrives after the child was started cancels what is
\* in flight (no RunCommand is issued after an interrupt that arrived before
\* the dispatch) and the child is killed when the invocation has ended; stated
\* for the invocations that log.Fatal does not end.
InterruptCancelsAndKills ==
    (interruptPc \in SpawnedPcs /\ ~exited) =>
        /\ (interruptPc # "r_dispatch" => rpcs = 0)
        /\ (pc = "done" => child = "killed")

\* C6: Install with the empty version issues no external request and touches
\* no file, and ends with a checksum error.
EmptyVersionFailsFirst ==
    (entry \in {"Install", "runInstallCmd"} /\ version = "" /\ pc # "start") =>
        /\ calls = {}
        /\ fs = fs0
        /\ (pc = "done" => result \in {"locate", "decode"})

\* C7: when the manifest holds no decodable checksum for the version, Install
\* has issued no HTTP request and ends with a checksum error.
ChecksumBeforeNetwork ==
    (/\ entry \in {"Install", "runInstallCmd"} /\ pc # "start"
     /\ getChecksum(plugin.Release, version).err # "nil") =>
        /\ calls \cap {"GetPluginData", "Download"} = {}
        /\ (pc = "done" => result \in {"locate", "decode"})

\* C8: a digest that getChecksum returns without error is Size bytes long.
ChecksumIsDigestSized ==
    (ret.op = "getChecksum" /\ ret.err = "nil") => Len(ret.sum) = Size

\* the releases of the plugin for the local platform
LocalReleases ==
    {i \in DOMAIN plugin.Release :
        plugin.Release[i].OS = GOOS /\ plugin.Release[i].Arch = GOARCH}

\* major, minor and patch number of a version string
Semver(v) ==
    CASE v = "1.2.0" -> <<1, 2, 0>>
      [] v = "1.10.0" -> <<1, 10, 0>>
      [] OTHER -> <<0, 0, 0>>

\* a precedes b, or is b, in semantic-version order
SemverLeq(a, b) ==
    \/ a[1] < b[1]
    \/ a[1] = b[1] /\ a[2] < b[2]
    \/ a[1] = b[1] /\ a[2] = b[2] /\ a[3] <= b[3]

\* C9: among the releases for the local platform (all of them carrying a
\* version), LookUpLatestVersion returns the greatest version in
\* semantic-version order, wherever it stands in the list.
LatestIsSemverGreatest ==
    (/\ ret.op = "LookUpLatestVersion"
     /\ \A i \in LocalReleases : plugin.Release[i].Version # "") =>
        \A i \in LocalReleases :
            SemverLeq(Semver(plugin.Release[i].Version), Semver(ret.version))

\* C10 as stated: LookUpLatestVersion returns "" exactly when no release is
\* for the local platform.
EmptyIffNoLocalRelease ==
    ret.op = "LookUpLatestVersion" =>
        (ret.version = "" <=> LocalReleases = {})

\* the last release for the local platform
LastLocal == CHOOSE i \in LocalReleases : \A j \in LocalReleases : j <= i

\* C10 amended: LookUpLatestVersion returns "" when no release is for the
\* local platform, and otherwise the version field of the last release for
\* the local platform, so "" exactly when there is none or that field is "".
EmptyIffNoLocalVersion ==
    ret.op = "LookUpLatestVersion" =>
        /\ (LocalReleases = {} => ret.version = "")
        /\ (LocalReleases # {} =>
               ret.version = plugin.Release[LastLocal].Version)
        /\ (ret.version = "" <=>
               (LocalReleases = {} \/ plugin.Release[LastLocal].Version = ""))

\* C10 witness: a non-empty release list with entries for other platforms
\* only, resolved to ""
OtherPlatformsOnlyWitness ==
    /\ ret.op = "LookUpLatestVersion"
    /\ plugin.Release # <<>>
    /\ LocalReleases = {}
    /\ ret.version = ""

\* C11: a GetPluginList that finds no cache file has called
\* RefreshPluginManifest exactly once when it returns.
LoadRefreshesOnce ==
    (ret.op = "GetPluginList" /\ ~cache0.exists) => refreshes = 1

MissingBinaryInstallsOnce ==
    (/\ entry = "Run" /\ pluginsPathEnv = ""
     /\ launched # NoPath
     /\ launched.name \in fs0.dirs
     /\ ~fs0.files[launched.name].exists) => installs = 1

\* C14: with PLUGINS_PATH set, Run globs nothing, resolves and installs
\* nothing, and the binary it launches is the one of the development version
\* under the PLUGINS_PATH directory.
DevOverrideTargetsOverridePath ==
    (entry = "Run" /\ pluginsPathEnv # "") =>
        /\ calls = {}
        /\ installs = 0
        /\ launched \in {NoPath, [root |-> pluginsPathEnv, name |-> "master"]}

\* C15: with PLUGINS_PATH set, Run pins no checksum and does not fail for
\* want of a release of the development version.
DevOverrideSkipsPinning ==
    (entry = "Run" /\ pluginsPathEnv # "") =>
        /\ pinned = <<>>
        /\ pc = "done" => result \notin {"locate", "decode"}

\* the version directories that the pattern *.*.*  matches
VersionDirs == {"1.2.0", "1.10.0"}

\* the positions of Run inside its call of Install
InstallPcs == {"i_apikey", "i_plugindata", "i_fetch", "i_verify", "i_mkdir",
               "i_create", "i_chmod", "i_copy"}

\* C16: without PLUGINS_PATH, a Run that starts with a version directory on
\* disk takes its version from the disk and launches: it calls no remote
\* service, fetches nothing and runs no Install.
InstalledGoesStraightToLaunch ==
    (entry = "Run" /\ pluginsPathEnv = "" /\ fs0.dirs \cap VersionDirs # {})
        => /\ calls = {}
           /\ resp = NoResponse
           /\ installs = 0
           /\ pc \notin InstallPcs
           /\ fs = fs0
           /\ pc # "start" => version \in fs0.dirs \cap VersionDirs

\* C16 witness: such a Run has launched the child and dispensed its interface
InstalledLaunchedWitness ==
    /\ entry = "Run" /\ pluginsPathEnv = "" /\ fs0.dirs \cap VersionDirs # {}
    /\ pc = "r_dispatch"
    /\ child = "running"

AtMostOneRunCommand ==
    /\ rpcs <= 1
    /\ pc = "r_dispatch" => rpcs = 0
    /\ rpcs = 1 => pc = "done"
    /\ (entry = "Run" /\ pc = "done") =>
           (rpcs = 1 <=> result \in {"nil", "upstream"})

\* C18 witness: a RunCommand that failed, issued once, and Run has returned
FailedRunCommandWitness ==
    entry = "Run" /\ pc = "done" /\ rpcs = 1 /\ rpcErr = "upstream"

\* C19: what Run returns after RunCommand is what RunCommand returned, the
\* same error or none.
UpstreamErrorUnchanged ==
    (entry = "Run" /\ pc = "done" /\ rpcs = 1) => result = rpcErr

\* C19 witness: Run has returned the error of RunCommand
UpstreamErrorReturnedWitness ==
    /\ entry = "Run" /\ pc = "done"
    /\ rpcErr = "upstream"
    /\ result = "upstream"

\* C20: an Install whose download was answered with a status outside 2xx
\* returns the fetch error and has written nothing.
NonSuccessStatusAbortsInstall ==
    (/\ resp # NoResponse
     /\ resp.status \notin 200..299
     /\ installErr \notin {"none", "running"}) =>
        (installErr = "fetch" /\ fs = fs0)

\* C21: whenever a consumer of the download is about to read the stream
\* (verifyChecksum, or the copy into the binary file), the stream has not
\* been closed.
StreamReadBeforeClose ==
    pc \in {"i_verify", "i_copy"} => ~stream.closed

\* the entries of the cached manifest whose shortname is the requested name
\* up to letter case
SameNameEntries ==
    {i \in DOMAIN cache0.text :
        ToLower(cache0.text[i]) = ToLower(pluginName)}

\* C22: over a manifest that parses, LookUpPlugin returns a plugin whose
\* shortname is the requested name up to letter case whenever there is one,
\* and the not-found error only when there is none.
LookUpIgnoresCase ==
    (ret.op = "LookUpPlugin" /\ GetPluginList(cache0).err = "nil") =>
        IF SameNameEntries # {}
        THEN /\ ret.err = "nil"
             /\ ToLower(ret.plugin.Shortname) = ToLower(pluginName)
        ELSE ret.err = "notfound"

\* the cache file was there when the call started and does not parse
Unparseable ==
    cache0.exists /\ \E i \in DOMAIN cache0.text : cache0.text[i] = "="

\* C23: over a cache file that is read but does not parse, GetPluginList and
\* LookUpPlugin return the decoding error, and with it an empty list and the
\* zero Plugin.
ParseFailureIsReported ==
    Unparseable =>
        /\ ret.op = "GetPluginList" =>
              (ret.err = "decode" /\ ret.list = <<>>)
        /\ ret.op = "LookUpPlugin" =>
              (ret.err = "decode" /\ ret.plugin = NoPlugin)

\* C23 witness: LookUpPlugin has failed on a manifest that holds the
\* requested plugin next to a line that does not parse
ParseFailureWitness ==
    /\ Unparseable
    /\ ret.op = "LookUpPlugin"
    /\ ret.err = "decode"
    /\ \E i \in DOMAIN cache0.text : cache0.text[i] = pluginName

\* the checksum lookup of the version Run holds
VersionChecksum == getChecksum(plugin.Release, version)

\* C25: without PLUGINS_PATH, Run hands a binary to the transport only with
\* the decoded manifest checksum of that version pinned; when the version
\* has none, Run has returned an error with nothing launched.
LaunchRequiresPinnedChecksum ==
    (entry = "Run" /\ pluginsPathEnv = "") =>
        /\ (launched # NoPath \/ child # "none") =>
              (VersionChecksum.err = "nil" /\ pinned = VersionChecksum.sum)
        /\ (/\ VersionChecksum.err # "nil"
            /\ pc \notin {"start", "r_config"} \cup InstallPcs) =>
              /\ pc = "done"
              /\ result \notin {"nil", "running"}
              /\ launched = NoPath
              /\ child = "none"

\* C25 witness: Run found a version directory on disk for which the manifest
\* has no checksum, and returned the error of getChecksum
UnpinnedVersionRefusedWitness ==
    /\ entry = "Run" /\ pluginsPathEnv = ""
    /\ fs0.dirs \cap VersionDirs # {}
    /\ pc = "done"
    /\ result \in {"locate", "decode"}
    /\ child = "none"

\* C26: once Install has returned an error, the glob of the plugin's
\* directory matches no version directory that was not there before.
FailedInstallLeavesNoVersionDir ==
    installErr \notin {"none", "running", "nil"} =>
        GlobMatches(fs) \subseteq GlobMatches(fs0)

\* C27: at every moment, every version directory the glob matches that this
\* invocation made holds the binary, executable and with the verified
\* content, and so does every executable binary file this invocation wrote.
GlobbedVersionsAreComplete ==
    /\ \A n \in GlobMatches(fs) \ fs0.dirs :
          /\ fs.files[n].exists
          /\ fs.files[n].mode = "0755"
          /\ Sha256Sum(fs.files[n].content)
                = getChecksum(plugin.Release, n).sum
    /\ \A n \in DirNames :
          (/\ fs.files[n] # fs0.files[n]
           /\ fs.files[n].exists
           /\ fs.files[n].mode = "0755") =>
              Sha256Sum(fs.files[n].content)
                 = getChecksum(plugin.Release, n).sum

\* both concurrent invocations have returned
BothReturned == other # NoOther /\ pc = "done" /\ other.pc = "done"

====
